---------------------------- MODULE Spec2Model ----------------------------
(***************************************************************************)
(* Othello rules engine (game.py) and search engine (ai.py).               *)
(*                                                                         *)
(* A board is a function row -> column -> cell, rows and columns 0..7,     *)
(* cells EMPTY, BLACK, WHITE as in config.py.  A move is <<row, col>>;     *)
(* Python's None (a pass) is the empty tuple.                              *)
(***************************************************************************)
EXTENDS Integers, Sequences, FiniteSets, TLC

\* ------------------------------------------------------------ config.py
BOARD_SIZE == 8
EMPTY == 0
BLACK == 1
WHITE == -1

DIRECTIONS ==
    << <<-1, -1>>, <<-1, 0>>, <<-1, 1>>,
       <<0, -1>>,             <<0, 1>>,
       <<1, -1>>,  <<1, 0>>,  <<1, 1>> >>

None == << >>

Colors == {BLACK, WHITE}
Rows == 0 .. (BOARD_SIZE - 1)

\* range(BOARD_SIZE) x range(BOARD_SIZE) in the order of the nested loops
AllCells == [k \in 1 .. (BOARD_SIZE * BOARD_SIZE) |->
                << (k - 1) \div BOARD_SIZE, (k - 1) % BOARD_SIZE >>]

\* ------------------------------------------------------------- bounds
\* make_move / undo_last_move calls made after the opening line
MaxSteps == 2
\* the depths handed to the root searches when they are called on their own
MaxDepth == 3
\* a deadline passes at one of the first MaxChecks deadline checks, or never
MaxChecks == 3
\* get_move: the deadline has passed when iteration MaxIter + 1 starts
MaxIter == 2

\* ------------------------------------------------------------- game.py
\* the start position with the two diagonals exchanged
StartBoardSwapped ==
    [r \in Rows |-> [c \in Rows |->
        IF <<r, c>> \in {<<3, 3>>, <<4, 4>>} THEN WHITE
        ELSE IF <<r, c>> \in {<<3, 4>>, <<4, 3>>} THEN BLACK
        ELSE EMPTY]]

StartBoard ==
    [r \in Rows |-> [c \in Rows |->
        IF <<r, c>> \in {<<3, 3>>, <<4, 4>>} THEN BLACK
        ELSE IF <<r, c>> \in {<<3, 4>>, <<4, 3>>} THEN WHITE
        ELSE EMPTY]]

NewGame == [board |-> StartBoard, history |-> << >>]

is_valid_position(row, col) ==
    0 <= row /\ row < BOARD_SIZE /\ 0 <= col /\ col < BOARD_SIZE

get_opponent(color) == IF color = BLACK THEN WHITE ELSE BLACK

\* the while loop of is_valid_move, get_legal_moves, flip_discs and
\* apply_move: the cells walked from (r, c) while they hold `opponent`
RECURSIVE CollectRun(_, _, _, _, _, _)
CollectRun(b, r, c, dr, dc, opponent) ==
    IF is_valid_position(r, c) /\ b[r][c] = opponent
    THEN << <<r, c>> >> \o CollectRun(b, r + dr, c + dc, dr, dc, opponent)
    ELSE << >>

\* the test after the loop: opponent(s) found and the walk ended on `color`
EndsOnColor(b, row, col, d, n, color) ==
    LET r == row + (n + 1) * d[1]
        c == col + (n + 1) * d[2]
    IN  n > 0 /\ is_valid_position(r, c) /\ b[r][c] = color

is_valid_move(b, row, col, color) ==
    /\ is_valid_position(row, col)
    /\ b[row][col] = EMPTY
    /\ \E i \in 1 .. Len(DIRECTIONS) :
          LET d == DIRECTIONS[i]
              run == CollectRun(b, row + d[1], col + d[2], d[1], d[2],
                                get_opponent(color))
          IN  EndsOnColor(b, row, col, d, Len(run), color)

legal_moves(b, color) ==
    SelectSeq(AllCells, LAMBDA m : is_valid_move(b, m[1], m[2], color))

\* get_legal_moves without the test that the walk ends on `color`
get_legal_moves_open(b, color) ==
    SelectSeq(AllCells, LAMBDA m :
        /\ b[m[1]][m[2]] = EMPTY
        /\ \E i \in 1 .. Len(DIRECTIONS) :
              LET d == DIRECTIONS[i]
                  run == CollectRun(b, m[1] + d[1], m[2] + d[2], d[1], d[2],
                                    get_opponent(color))
              IN  Len(run) > 0)

get_legal_moves(b, color) ==
    SelectSeq(AllCells, LAMBDA m :
        /\ b[m[1]][m[2]] = EMPTY
        /\ \E i \in 1 .. Len(DIRECTIONS) :
              LET d == DIRECTIONS[i]
                  run == CollectRun(b, m[1] + d[1], m[2] + d[2], d[1], d[2],
                                    get_opponent(color))
              IN  EndsOnColor(b, m[1], m[2], d, Len(run), color))

RECURSIVE FlipScan(_, _, _, _, _)
FlipScan(b, row, col, color, i) ==
    IF i > Len(DIRECTIONS) THEN << >>
    ELSE LET d == DIRECTIONS[i]
             temp_flipped == CollectRun(b, row + d[1], col + d[2], d[1], d[2],
                                        get_opponent(color))
         IN  (IF EndsOnColor(b, row, col, d, Len(temp_flipped), color)
              THEN temp_flipped ELSE << >>)
             \o FlipScan(b, row, col, color, i + 1)

\* flip_discs that stops at the first direction that flips
RECURSIVE FlipScanFirst(_, _, _, _, _)
FlipScanFirst(b, row, col, color, i) ==
    IF i > Len(DIRECTIONS) THEN << >>
    ELSE LET d == DIRECTIONS[i]
             temp_flipped == CollectRun(b, row + d[1], col + d[2], d[1], d[2],
                                        get_opponent(color))
         IN  IF EndsOnColor(b, row, col, d, Len(temp_flipped), color)
             THEN temp_flipped
             ELSE FlipScanFirst(b, row, col, color, i + 1)

flip_discs_first(b, row, col, color) ==
    IF ~is_valid_move(b, row, col, color) THEN << >>
    ELSE FlipScanFirst(b, row, col, color, 1)

flip_discs(b, row, col, color) ==
    IF ~is_valid_move(b, row, col, color) THEN << >>
    ELSE FlipScan(b, row, col, color, 1)

\* board[r][c] = v for every (r, c) of the list, in order
RECURSIVE SetCells(_, _, _)
SetCells(b, cells, v) ==
    IF cells = << >> THEN b
    ELSE SetCells([b EXCEPT ![cells[1][1]][cells[1][2]] = v], Tail(cells), v)

\* make_move that places the disc and flips nothing
make_move_place_only(g, move, color) ==
    IF move = None
    THEN [board |-> g.board,
          history |-> Append(g.history,
                        [move |-> None, color |-> color, flipped |-> << >>]),
          ret |-> TRUE]
    ELSE IF ~is_valid_move(g.board, move[1], move[2], color)
    THEN [board |-> g.board, history |-> g.history, ret |-> FALSE]
    ELSE [board |-> [g.board EXCEPT ![move[1]][move[2]] = color],
          history |-> Append(g.history,
                        [move |-> move, color |-> color, flipped |-> << >>]),
          ret |-> TRUE]

\* make_move that accepts a pass without recording it
make_move_pass_unrecorded(g, move, color) ==
    IF move = None
    THEN [board |-> g.board, history |-> g.history, ret |-> TRUE]
    ELSE IF ~is_valid_move(g.board, move[1], move[2], color)
    THEN [board |-> g.board, history |-> g.history, ret |-> FALSE]
    ELSE LET flipped == flip_discs(g.board, move[1], move[2], color)
         IN  [board |-> SetCells([g.board EXCEPT ![move[1]][move[2]] = color],
                                 flipped, color),
              history |-> Append(g.history,
                        [move |-> move, color |-> color, flipped |-> flipped]),
              ret |-> TRUE]

\* a game is [board, history]; the result carries the return value too
make_move(g, move, color) ==
    IF move = None
    THEN [board |-> g.board,
          history |-> Append(g.history,
                        [move |-> None, color |-> color, flipped |-> << >>]),
          ret |-> TRUE]
    ELSE IF ~is_valid_move(g.board, move[1], move[2], color)
    THEN [board |-> g.board, history |-> g.history, ret |-> FALSE]
    ELSE LET flipped == flip_discs(g.board, move[1], move[2], color)
         IN  [board |-> SetCells([g.board EXCEPT ![move[1]][move[2]] = color],
                                 flipped, color),
              history |-> Append(g.history,
                        [move |-> move, color |-> color, flipped |-> flipped]),
              ret |-> TRUE]

RECURSIVE ApplyScan(_, _, _, _, _)
ApplyScan(new_board, row, col, color, i) ==
    IF i > Len(DIRECTIONS) THEN new_board
    ELSE LET d == DIRECTIONS[i]
             temp_flipped == CollectRun(new_board, row + d[1], col + d[2],
                                        d[1], d[2], get_opponent(color))
         IN  ApplyScan(IF EndsOnColor(new_board, row, col, d,
                                      Len(temp_flipped), color)
                       THEN SetCells(new_board, temp_flipped, color)
                       ELSE new_board,
                       row, col, color, i + 1)

apply_move(b, move, color) ==
    IF move = None THEN b
    ELSE ApplyScan([b EXCEPT ![move[1]][move[2]] = color],
                   move[1], move[2], color, 1)

\* undo_last_move that resets the flipped cells to the mover's color
undo_last_move_same(g) ==
    IF g.history = << >>
    THEN [board |-> g.board, history |-> g.history, ret |-> FALSE]
    ELSE LET last == g.history[Len(g.history)]
             rest == SubSeq(g.history, 1, Len(g.history) - 1)
         IN  IF last.move = None
             THEN [board |-> g.board, history |-> rest, ret |-> TRUE]
             ELSE [board |-> SetCells(
                              [g.board EXCEPT ![last.move[1]][last.move[2]] = EMPTY],
                              last.flipped, last.color),
                   history |-> rest, ret |-> TRUE]

\* undo_last_move without the test of the empty history
undo_last_move_unguarded(g) ==
    IF g.history = << >>
    THEN [board |-> g.board, history |-> g.history, ret |-> TRUE]
    ELSE LET last == g.history[Len(g.history)]
             rest == SubSeq(g.history, 1, Len(g.history) - 1)
         IN  IF last.move = None
             THEN [board |-> g.board, history |-> rest, ret |-> TRUE]
             ELSE [board |-> SetCells(
                              [g.board EXCEPT ![last.move[1]][last.move[2]] = EMPTY],
                              last.flipped, get_opponent(last.color)),
                   history |-> rest, ret |-> TRUE]

undo_last_move(g) ==
    IF g.history = << >>
    THEN [board |-> g.board, history |-> g.history, ret |-> FALSE]
    ELSE LET last == g.history[Len(g.history)]
             rest == SubSeq(g.history, 1, Len(g.history) - 1)
         IN  IF last.move = None
             THEN [board |-> g.board, history |-> rest, ret |-> TRUE]
             ELSE [board |-> SetCells(
                              [g.board EXCEPT ![last.move[1]][last.move[2]] = EMPTY],
                              last.flipped, get_opponent(last.color)),
                   history |-> rest, ret |-> TRUE]

CountOf(b, v) == Cardinality({m \in Rows \X Rows : b[m[1]][m[2]] = v})

count_discs(b) == << CountOf(b, BLACK), CountOf(b, WHITE) >>

\* is_game_over with "or" for "and"
is_game_over_or(b) ==
    legal_moves(b, BLACK) = << >> \/ legal_moves(b, WHITE) = << >>

is_game_over(b) ==
    legal_moves(b, BLACK) = << >> /\ legal_moves(b, WHITE) = << >>

get_winner(b) ==
    LET n == count_discs(b)
    IN  IF n[1] > n[2] THEN BLACK ELSE IF n[2] > n[1] THEN WHITE ELSE EMPTY

\* --------------------------------------------------------------- ai.py
\* config.WEIGHTS
W_material == 10
W_mobility == 7
W_corner == 40
W_edge == 3
W_stability == 4
DEFAULT_DMAX == 8
\* config.DMAX
DMAX == 9
\* math.inf: larger than any score the evaluator can return
INF == 1000000

Max(a, b) == IF a >= b THEN a ELSE b
Min(a, b) == IF a <= b THEN a ELSE b

corners_idx == << <<0, 0>>, <<0, 7>>, <<7, 0>>, <<7, 7>> >>

\* "for i in [0, 7]: for j in range(8)" then "for j in [0, 7]: for i in range(1, 7)"
EdgeScan == {m \in Rows \X Rows : m[1] \in {0, 7}}
            \cup {m \in Rows \X Rows : m[2] \in {0, 7} /\ m[1] \in 1 .. 6}

CountIn(b, cells, v) == Cardinality({m \in cells : b[m[1]][m[2]] = v})

\* the stability proxy: every corner `color` owns, plus its owned neighbours
StabilityOf(b, color) ==
    LET owned == {i \in 1 .. Len(corners_idx) :
                     b[corners_idx[i][1]][corners_idx[i][2]] = color}
        around(i) == {d \in (-1 .. 1) \X (-1 .. 1) :
                        /\ d # <<0, 0>>
                        /\ 0 <= corners_idx[i][1] + d[1]
                        /\ corners_idx[i][1] + d[1] < 8
                        /\ 0 <= corners_idx[i][2] + d[2]
                        /\ corners_idx[i][2] + d[2] < 8
                        /\ b[corners_idx[i][1] + d[1]][corners_idx[i][2] + d[2]]
                              = color}
    IN  Cardinality(owned)
        + Cardinality({p \in owned \X ((-1 .. 1) \X (-1 .. 1)) :
                          p[2] \in around(p[1])})

\* the edge term: my_edges - opp_edges over the cells the two loops visit
EdgeTerm(b, color) ==
    CountIn(b, EdgeScan, color) - CountIn(b, EdgeScan, -color)

\* the standalone evaluator of the worker processes
evaluate_board(b, color) ==
    LET black_count == CountOf(b, BLACK)
        white_count == CountOf(b, WHITE)
        material == IF color = BLACK THEN black_count - white_count
                    ELSE white_count - black_count
        my_moves == Len(get_legal_moves(b, color))
        opp_moves == Len(get_legal_moves(b, -color))
        mobility == IF my_moves + opp_moves # 0 THEN my_moves - opp_moves ELSE 0
        cornerset == {corners_idx[i] : i \in 1 .. Len(corners_idx)}
        corners == CountIn(b, cornerset, color) - CountIn(b, cornerset, -color)
        edges == EdgeTerm(b, color)
        stability == StabilityOf(b, color)
    IN  W_material * material + W_mobility * mobility + W_corner * corners
        + W_edge * edges + W_stability * stability

\* OthelloAI.evaluate without the stability term
evaluate_no_stability(b, self_color) ==
    LET black_count == CountOf(b, BLACK)
        white_count == CountOf(b, WHITE)
        material == IF self_color = BLACK THEN black_count - white_count
                    ELSE white_count - black_count
        my_moves == Len(get_legal_moves(b, self_color))
        opp_moves == Len(get_legal_moves(b, -self_color))
        mobility == IF my_moves + opp_moves # 0 THEN my_moves - opp_moves ELSE 0
        cornerset == {corners_idx[i] : i \in 1 .. Len(corners_idx)}
        corners == CountIn(b, cornerset, self_color)
                   - CountIn(b, cornerset, -self_color)
        edges == CountIn(b, EdgeScan, self_color)
                 - CountIn(b, EdgeScan, -self_color)
    IN  W_material * material + W_mobility * mobility + W_corner * corners
        + W_edge * edges

\* OthelloAI.evaluate, from self.color's perspective
evaluate(b, self_color) ==
    LET black_count == CountOf(b, BLACK)
        white_count == CountOf(b, WHITE)
        material == IF self_color = BLACK THEN black_count - white_count
                    ELSE white_count - black_count
        my_moves == Len(get_legal_moves(b, self_color))
        opp_moves == Len(get_legal_moves(b, -self_color))
        mobility == IF my_moves + opp_moves # 0 THEN my_moves - opp_moves ELSE 0
        cornerset == {corners_idx[i] : i \in 1 .. Len(corners_idx)}
        corners == CountIn(b, cornerset, self_color)
                   - CountIn(b, cornerset, -self_color)
        edges == CountIn(b, EdgeScan, self_color)
                 - CountIn(b, EdgeScan, -self_color)
        stability == StabilityOf(b, self_color)
    IN  W_material * material + W_mobility * mobility + W_corner * corners
        + W_edge * edges + W_stability * stability

\* The clock.  t is the number of deadline checks that still answer "not
\* exceeded"; NoDeadline is a deadline that never passes.  time.time() never
\* goes back, so once a check answers "exceeded" every later one does.
NoDeadline == -1
time_exceeded(t) == t = 0
Tick(t) == IF t > 0 THEN t - 1 ELSE t

\* OthelloAI.alphabeta_search: [move, val, t], t the clock on return
RECURSIVE alphabeta_search(_, _, _, _, _, _, _)
RECURSIVE SearchLoop(_, _, _, _, _, _, _, _, _, _, _)
SearchLoop(b, moves, i, depth, alpha, beta, maximizing_player, self_color, best_move, best_eval, t) ==
    IF i > Len(moves) \/ time_exceeded(t)
    THEN [move |-> best_move, val |-> best_eval, t |-> t]
    ELSE LET color == IF maximizing_player THEN self_color ELSE -self_color
             new_board == apply_move(b, moves[i], color)
             child == alphabeta_search(new_board, depth - 1, alpha, beta,
                                       ~maximizing_player, self_color, Tick(t))
             eval_val == child.val
             better == \/ best_move = None
                       \/ IF maximizing_player THEN eval_val > best_eval
                          ELSE eval_val < best_eval
             new_eval == IF better THEN eval_val ELSE best_eval
             new_move == IF better THEN moves[i] ELSE best_move
             new_alpha == IF maximizing_player THEN Max(alpha, eval_val) ELSE alpha
             new_beta == IF maximizing_player THEN beta ELSE Min(beta, eval_val)
         IN  IF new_beta <= new_alpha
             THEN [move |-> new_move, val |-> new_eval, t |-> child.t]
             ELSE SearchLoop(b, moves, i + 1, depth, new_alpha, new_beta,
                             maximizing_player, self_color, new_move, new_eval,
                             child.t)

alphabeta_search(b, depth, alpha, beta, maximizing_player, self_color, t) ==
    LET color == IF maximizing_player THEN self_color ELSE -self_color
        moves == get_legal_moves(b, color)
    IN  IF depth = 0 \/ moves = << >>
        THEN [move |-> None, val |-> evaluate(b, self_color), t |-> t]
        ELSE IF time_exceeded(t)
        THEN [move |-> None, val |-> evaluate(b, self_color), t |-> t]
        ELSE SearchLoop(b, moves, 1, depth, alpha, beta, maximizing_player,
                        self_color, None,
                        IF maximizing_player THEN -INF ELSE INF, Tick(t))

\* OthelloAI._root_search_sequential: [move, score, t]
RECURSIVE RootLoop(_, _, _, _, _, _, _, _, _)
RootLoop(b, moves, i, depth, self_color, alpha, best_move, best_score, t) ==
    IF i > Len(moves) \/ time_exceeded(t)
    THEN [move |-> best_move, score |-> best_score, t |-> t]
    ELSE LET new_board == apply_move(b, moves[i], self_color)
             child == alphabeta_search(new_board, depth - 1, alpha, INF, FALSE,
                                       self_color, Tick(t))
             eval_val == child.val
             better == eval_val > best_score \/ best_move = None
         IN  RootLoop(b, moves, i + 1, depth, self_color, Max(alpha, eval_val),
                      IF better THEN moves[i] ELSE best_move,
                      IF better THEN eval_val ELSE best_score,
                      child.t)

\* the root loop with "eval_val >= best_score" for "eval_val > best_score"
RECURSIVE RootLoopGE(_, _, _, _, _, _, _, _, _)
RootLoopGE(b, moves, i, depth, self_color, alpha, best_move, best_score, t) ==
    IF i > Len(moves) \/ time_exceeded(t)
    THEN [move |-> best_move, score |-> best_score, t |-> t]
    ELSE LET new_board == apply_move(b, moves[i], self_color)
             child == alphabeta_search(new_board, depth - 1, alpha, INF, FALSE,
                                       self_color, Tick(t))
             eval_val == child.val
             better == eval_val >= best_score \/ best_move = None
         IN  RootLoopGE(b, moves, i + 1, depth, self_color,
                        Max(alpha, eval_val),
                        IF better THEN moves[i] ELSE best_move,
                        IF better THEN eval_val ELSE best_score,
                        child.t)

root_search_sequential_ge(b, moves, depth, self_color, t) ==
    RootLoopGE(b, moves, 1, depth, self_color, -INF, None, -INF, t)

root_search_sequential(b, moves, depth, self_color, t) ==
    RootLoop(b, moves, 1, depth, self_color, -INF, None, -INF, t)

\* _parallel_worker's nested alphabeta: [val, t]
RECURSIVE worker_alphabeta(_, _, _, _, _, _, _)
RECURSIVE WorkerLoop(_, _, _, _, _, _, _, _, _, _)
WorkerLoop(local_board, moves, i, d, alpha, beta, maximizing, color, value, t) ==
    IF i > Len(moves) THEN [val |-> value, t |-> t]
    ELSE LET node_color == IF maximizing THEN color ELSE -color
             child_board == apply_move(local_board, moves[i], node_color)
             child == worker_alphabeta(child_board, d - 1, alpha, beta,
                                       ~maximizing, color, t)
             eval_val == child.val
             new_value == IF maximizing THEN Max(value, eval_val)
                          ELSE Min(value, eval_val)
             new_alpha == IF maximizing THEN Max(alpha, eval_val) ELSE alpha
             new_beta == IF maximizing THEN beta ELSE Min(beta, eval_val)
         IN  IF new_beta <= new_alpha THEN [val |-> new_value, t |-> child.t]
             ELSE WorkerLoop(local_board, moves, i + 1, d, new_alpha, new_beta,
                             maximizing, color, new_value, child.t)

worker_alphabeta(local_board, d, alpha, beta, maximizing, color, t) ==
    LET node_color == IF maximizing THEN color ELSE -color
        moves == get_legal_moves(local_board, node_color)
    IN  IF d = 0 \/ moves = << >>
        THEN [val |-> evaluate_board(local_board, color), t |-> t]
        ELSE IF time_exceeded(t)
        THEN [val |-> evaluate_board(local_board, color), t |-> t]
        ELSE WorkerLoop(local_board, moves, 1, d, alpha, beta, maximizing,
                        color, IF maximizing THEN -INF ELSE INF, Tick(t))

\* _parallel_worker((board, move, depth, color, start_time, time_limit))
parallel_worker(b, move, depth, color, t) ==
    LET new_board == apply_move(b, move, color)
        r == worker_alphabeta(new_board, depth - 1, -INF, INF, FALSE, color, t)
    IN  [move |-> move, score |-> r.val, t |-> r.t]

\* the last result with the largest score, for the first
MaxByScoreLast(results) ==
    LET best == CHOOSE i \in 1 .. Len(results) :
                  /\ \A j \in 1 .. Len(results) :
                        results[j].score <= results[i].score
                  /\ \A j \in (i + 1) .. Len(results) :
                        results[j].score < results[i].score
    IN  results[best]

\* max(results, key=lambda x: x[1]): the first result with the largest score
MaxByScore(results) ==
    LET best == CHOOSE i \in 1 .. Len(results) :
                  /\ \A j \in 1 .. Len(results) :
                        results[j].score <= results[i].score
                  /\ \A j \in 1 .. (i - 1) :
                        results[j].score < results[i].score
    IN  results[best]

\* -------------------------------------------------- opening lines
\* Games played from the start position, each move accepted by make_move.
Line0 == << >>
Line1 == << <<BLACK, <<2, 4>> >>, <<WHITE, <<2, 5>> >>, <<BLACK, <<2, 6>> >>,
            <<WHITE, <<1, 6>> >>, <<BLACK, <<0, 6>> >>, <<WHITE, <<0, 7>> >> >>
Line2 == << <<BLACK, <<2, 4>> >>, <<WHITE, <<2, 5>> >>, <<BLACK, <<2, 6>> >>,
            <<WHITE, <<1, 6>> >>, <<BLACK, <<4, 2>> >>, <<WHITE, <<2, 7>> >>,
            <<BLACK, <<0, 7>> >>, <<WHITE, <<0, 5>> >> >>
Line3 == << <<BLACK, <<2, 4>> >>, <<WHITE, <<2, 3>> >>, <<BLACK, <<1, 2>> >>,
            <<WHITE, <<1, 5>> >>, <<BLACK, <<1, 4>> >>, <<WHITE, <<2, 5>> >>,
            <<BLACK, <<4, 2>> >>, <<WHITE, <<1, 3>> >>, <<BLACK, <<1, 6>> >> >>
\* a whole game, to the full board
Line4 == <<
    <<BLACK, <<5, 3>>>>, <<WHITE, <<5, 2>>>>, <<BLACK, <<3, 5>>>>,
    <<WHITE, <<6, 3>>>>, <<BLACK, <<7, 3>>>>, <<WHITE, <<7, 4>>>>,
    <<BLACK, <<5, 1>>>>, <<WHITE, <<4, 1>>>>, <<BLACK, <<7, 5>>>>,
    <<WHITE, <<2, 5>>>>, <<BLACK, <<3, 1>>>>, <<WHITE, <<3, 6>>>>,
    <<BLACK, <<4, 2>>>>, <<WHITE, <<5, 4>>>>, <<BLACK, <<6, 2>>>>,
    <<WHITE, <<2, 0>>>>, <<BLACK, <<6, 4>>>>, <<WHITE, <<2, 4>>>>,
    <<BLACK, <<6, 5>>>>, <<WHITE, <<6, 0>>>>, <<BLACK, <<2, 3>>>>,
    <<WHITE, <<6, 1>>>>, <<BLACK, <<2, 6>>>>, <<WHITE, <<4, 5>>>>,
    <<BLACK, <<3, 7>>>>, <<WHITE, <<1, 4>>>>, <<BLACK, <<1, 3>>>>,
    <<WHITE, <<0, 3>>>>, <<BLACK, <<0, 4>>>>, <<WHITE, <<6, 6>>>>,
    <<BLACK, <<2, 2>>>>, <<WHITE, <<0, 5>>>>, <<BLACK, <<7, 6>>>>,
    <<WHITE, <<1, 6>>>>, <<BLACK, <<5, 5>>>>, <<WHITE, <<4, 0>>>>,
    <<BLACK, <<3, 0>>>>, <<WHITE, <<1, 5>>>>, <<BLACK, <<1, 7>>>>,
    <<WHITE, <<0, 6>>>>, <<BLACK, <<7, 1>>>>, <<WHITE, <<1, 1>>>>,
    <<BLACK, <<0, 0>>>>, <<WHITE, <<4, 7>>>>, <<BLACK, <<2, 1>>>>,
    <<WHITE, <<2, 7>>>>, <<BLACK, <<5, 7>>>>, <<WHITE, <<5, 6>>>>,
    <<BLACK, <<4, 6>>>>, <<WHITE, <<7, 0>>>>, <<BLACK, <<5, 0>>>>,
    <<WHITE, <<0, 1>>>>, <<BLACK, <<1, 2>>>>, <<WHITE, <<7, 7>>>>,
    <<BLACK, <<1, 0>>>>, <<WHITE, <<0, 2>>>>, <<BLACK, <<7, 2>>>>,
    <<WHITE, <<3, 2>>>>, <<BLACK, <<6, 7>>>>, <<WHITE, <<0, 7>>>> >>
Lines == {Line0, Line1, Line2, Line3, Line4}

\* the game after the moves of `line`, as long as make_move accepts them
RECURSIVE Replay(_, _)
Replay(g, line) ==
    IF ~g.ret \/ line = << >> THEN g
    ELSE Replay(make_move(g, line[1][2], line[1][1]), Tail(line))

\* pool.map(_parallel_worker, tasks) from task i on: the results in the order
\* of the tasks, worker_t[i] the clock the worker of task i starts with
RECURSIVE PoolMap(_, _, _, _, _, _)
PoolMap(b, moves, i, depth, color, worker_t) ==
    IF i > Len(moves) THEN << >>
    ELSE << parallel_worker(b, moves[i], depth, color, worker_t[i]) >>
         \o PoolMap(b, moves, i + 1, depth, color, worker_t)

\* the results in the order in which the workers completed
pool_map_unordered(results, order) ==
    [k \in 1 .. Len(order) |-> results[order[k]]]

\* pool.map under a schedule: the workers complete in the order `order` (a
\* permutation of the task numbers), each result is filed under the number of
\* its task, and the list returned is in the order of the tasks
pool_map(results, order) ==
    LET completed == [k \in 1 .. Len(order) |->
                         [task |-> order[k], result |-> results[order[k]]]]
    IN  [i \in 1 .. Len(results) |->
            completed[CHOOSE k \in 1 .. Len(order) :
                         completed[k].task = i].result]

\* orders in which n workers may complete: the order of the tasks, its
\* reverse, and the first task last
Orders(n) ==
    {[k \in 1 .. n |-> k], [k \in 1 .. n |-> n + 1 - k],
     [k \in 1 .. n |-> IF k = n THEN 1 ELSE k + 1]}

\* _root_search_parallel: [move, score, t].  best_move is self.best_move, t the
\* coordinator's clock, cpu the value of cpu_count(), pool_ok whether Pool and
\* pool.map succeed, results what pool.map returns: the workers' results in
\* the order of the tasks.
root_search_parallel(b, moves, depth, self_color, best_move, t, cpu, pool_ok, results) ==
    IF time_exceeded(t) THEN [move |-> best_move, score |-> -INF, t |-> t]
    ELSE LET n_procs == Min(cpu, Len(moves))
             best == MaxByScore(results)
         IN  IF n_procs <= 1 \/ ~pool_ok
             THEN root_search_sequential(b, moves, depth, self_color, Tick(t))
             ELSE [move |-> best.move, score |-> best.score, t |-> Tick(t)]

\* ------------------------------------------------------------- state
\* board, history: the OthelloGame object.  last: the last mutating call and
\* what it returned.  steps: calls accepted so far.  out: the last call of a
\* function that returns a value and changes nothing.  ai: the AI turn in
\* progress, i.e. the OthelloAI object of _ai_worker and the place its
\* get_move has reached.
\* gui: the fields of the OthelloGUI session, its pending root.after callbacks
\* and the game object the AI thread holds.
VARIABLES board, history, last, steps, out, ai, gui

vars == << board, history, last, steps, out, ai, gui >>

game == [board |-> board, history |-> history]

\* coordinates a caller may hand to make_move: the board and one step around it
Coords == (-1) .. BOARD_SIZE
MoveInputs == (Coords \X Coords) \cup {None}

NoCall == [op |-> "none"]

\* no AI turn in progress
NoAi == [pc |-> "idle"]

\* no session: the game object is used on its own
NoGui == [mode |-> "none"]

\* cpu_count() of the machine the search runs on
CpuCounts == {1, 4}
\* cpu_count() where the pool is called on its own: no pool, pools of 2 and 4
PoolCpuCounts == {1, 2, 4}

Prefix(line, k) == SubSeq(line, 1, k)

ToSet(seq) == {seq[i] : i \in 1 .. Len(seq)}

InitAt(line) ==
    /\ \E g \in {Replay([board |-> StartBoard, history |-> << >>, ret |-> TRUE],
                          line)} :
          board = g.board /\ history = g.history
    /\ last = [op |-> "init", ret |-> TRUE]
    /\ steps = 0
    /\ out = NoCall
    /\ ai = NoAi
    /\ gui = NoGui

Init == \E line \in Lines : InitAt(line)

MakeMove ==
    /\ steps < MaxSteps
    /\ \E move \in MoveInputs, color \in Colors :
          LET g == make_move(game, move, color)
          IN  /\ board' = g.board
              /\ history' = g.history
              /\ last' = [op |-> "make_move", ret |-> g.ret]
              /\ steps' = IF g.ret THEN steps + 1 ELSE steps
    /\ out' = NoCall
    /\ UNCHANGED << ai, gui >>

UndoLastMove ==
    /\ steps < MaxSteps
    /\ LET g == undo_last_move(game)
       IN  /\ board' = g.board
           /\ history' = g.history
           /\ last' = [op |-> "undo_last_move", ret |-> g.ret]
           /\ steps' = IF g.ret THEN steps + 1 ELSE steps
    /\ out' = NoCall
    /\ UNCHANGED << ai, gui >>

Next == MakeMove \/ UndoLastMove

Spec == Init /\ [][Next]_vars

\* ------------------------------------ the rules' functions on their own
\* get_legal_moves, apply_move and is_game_over change nothing; each is called
\* on every position along the opening lines and its value is kept in out.
QueryInit ==
    \E line \in Lines : \E k \in 0 .. Len(line) : InitAt(Prefix(line, k))

GetLegalMoves ==
    /\ out = NoCall
    /\ \E color \in Colors :
          out' = [op |-> "get_legal_moves", color |-> color,
                  val |-> get_legal_moves(board, color)]
    /\ UNCHANGED << board, history, last, steps, ai, gui >>

\* the search hands apply_move cells of the board only
ApplyMove ==
    /\ out = NoCall
    /\ \E move \in (Rows \X Rows) \cup {None}, color \in Colors :
          out' = [op |-> "apply_move", color |-> color, move |-> move,
                  val |-> apply_move(board, move, color)]
    /\ UNCHANGED << board, history, last, steps, ai, gui >>

IsGameOver ==
    /\ out = NoCall
    /\ out' = [op |-> "is_game_over", val |-> is_game_over(board)]
    /\ UNCHANGED << board, history, last, steps, ai, gui >>

\* the caller takes the returned value; the next call can be made
Return ==
    /\ out # NoCall
    /\ out' = NoCall
    /\ UNCHANGED << board, history, last, steps, ai, gui >>

QueryNext == GetLegalMoves \/ ApplyMove \/ IsGameOver \/ Return

SpecQuery == QueryInit /\ [][QueryNext]_vars

\* ------------------------------------------------ the evaluators on their own
\* The two evaluators are called for either color on every position along the
\* opening lines and the whole game; the value is kept in out.
EvaluateBoard ==
    /\ out = NoCall
    /\ \E color \in Colors :
          out' = [op |-> "evaluate_board", color |-> color,
                  edges |-> EdgeTerm(board, color),
                  val |-> evaluate_board(board, color)]
    /\ UNCHANGED << board, history, last, steps, ai, gui >>

Evaluate ==
    /\ out = NoCall
    /\ \E self_color \in Colors :
          out' = [op |-> "evaluate", color |-> self_color,
                  val |-> evaluate(board, self_color)]
    /\ UNCHANGED << board, history, last, steps, ai, gui >>

EvalNext == EvaluateBoard \/ Evaluate \/ Return

SpecEval == QueryInit /\ [][EvalNext]_vars

\* ------------------------------------------- the root searches on their own
\* Positions early in the opening lines, searched for either color at the
\* depths 1 .. MaxDepth, under a deadline that passes at a given check or never.
SearchLines == {Line0, Prefix(Line1, 2)}

Deadlines == (0 .. MaxChecks) \cup {NoDeadline}

SearchInit == \E line \in SearchLines : InitAt(line)

RootSearchSequential ==
    /\ out = NoCall
    /\ \E color \in Colors, depth \in 1 .. MaxDepth, t \in Deadlines :
          \E r \in {root_search_sequential(board, get_legal_moves(board, color),
                                           depth, color, t)} :
              out' = [op |-> "_root_search_sequential", color |-> color,
                      depth |-> depth, deadline |-> t, workers |-> FALSE,
                      move |-> r.move, score |-> r.score,
                      expired |-> time_exceeded(r.t)]
    /\ UNCHANGED << board, history, last, steps, ai, gui >>

\* get_move calls the parallel variant with at least 2 moves, at a depth of at
\* least 2, and with self.best_move set to the first legal move or a later one
RootSearchParallel ==
    /\ out = NoCall
    /\ \E color \in Colors, depth \in 2 .. MaxDepth :
          \E moves \in {get_legal_moves(board, color)} :
              /\ Len(moves) >= 2
              /\ \E ran \in {PoolMap(board, moves, 1, depth, color,
                                     [i \in 1 .. Len(moves) |-> NoDeadline])},
                    t \in Deadlines, cpu \in PoolCpuCounts, pool_ok \in BOOLEAN,
                    order \in Orders(Len(moves)) :
                    \E workers \in {~time_exceeded(t)
                                     /\ Min(cpu, Len(moves)) > 1 /\ pool_ok} :
                        /\ workers \/ order = [k \in 1 .. Len(moves) |-> k]
                        /\ \E r \in {root_search_parallel(board, moves, depth,
                                        color, moves[1], t, cpu, pool_ok,
                                        pool_map(ran, order))} :
                              out' = [op |-> "_root_search_parallel",
                                      color |-> color, depth |-> depth,
                                      deadline |-> t, workers |-> workers,
                                      cpu |-> cpu, order |-> order,
                                      scores |-> [i \in 1 .. Len(moves) |->
                                                     ran[i].score],
                                      move |-> r.move, score |-> r.score,
                                      expired |-> time_exceeded(r.t)]
    /\ UNCHANGED << board, history, last, steps, ai, gui >>

\* alphabeta_search called on the position itself with the full window, as
\* a maximizing or a minimizing node of an agent of either color
AlphaBetaSearch ==
    /\ out = NoCall
    /\ \E self_color \in Colors, depth \in 1 .. MaxDepth,
          maximizing_player \in BOOLEAN, t \in Deadlines :
          \E r \in {alphabeta_search(board, depth, -INF, INF,
                                      maximizing_player, self_color, t)} :
              out' = [op |-> "alphabeta_search", color |-> self_color,
                      depth |-> depth, maximizing |-> maximizing_player,
                      deadline |-> t, move |-> r.move, val |-> r.val,
                      expired |-> time_exceeded(r.t)]
    /\ UNCHANGED << board, history, last, steps, ai, gui >>

SearchNext ==
    RootSearchSequential \/ RootSearchParallel \/ AlphaBetaSearch \/ Return

SpecSearch == SearchInit /\ [][SearchNext]_vars

\* ------------------------------------------------------------ the AI turn
\* _ai_worker builds OthelloAI(self.game, ai_color) and calls get_move.  The
\* session holds its Max Depth setting in self.dmax.  The wall clock belongs
\* to the environment: at every iteration of get_move it decides after how
\* many more deadline checks the deadline passes, or that it does not pass
\* during this iteration.
AiLines == {Line0, Prefix(Line1, 2), Prefix(Line1, 5), Line2, Line3}

\* values of the Max Depth entry: the smallest depth and the default
DmaxSettings == {1, DEFAULT_DMAX}

AiInit == \E line \in AiLines : InitAt(line)

\* no fallback: best_move stays None until a root search is promoted
FallbackNone(legal) == None

\* self.best_move = legal_moves[0]
FallbackMove(legal) == legal[1]

\* get_move up to the iterative deepening loop, on the board b of self.game;
\* dmax is the Max Depth setting the session holds
GetMoveStart(b, color, dmax) ==
    \E legal \in {get_legal_moves(b, color)} :
        ai' = [pc |-> IF legal = << >> THEN "done" ELSE "loop",
               color |-> color, dmax |-> dmax, legal_moves |-> legal,
               best_move |-> IF legal = << >> THEN None
                             ELSE FallbackMove(legal),
               depth |-> 1, depths |-> << >>, expired |-> FALSE,
               prev_best |-> None, found |-> None, stale |-> FALSE,
               ret |-> None]

\* _ai_worker and get_move up to the iterative deepening loop
StartAiMove ==
    /\ ai.pc = "idle"
    /\ \E color \in Colors, dmax \in DmaxSettings :
          GetMoveStart(board, color, dmax)
    /\ UNCHANGED << board, history, last, steps, out, gui >>

\* the workers of one pool.map run while the coordinator waits; all of them
\* start with the clock w
WorkerClocks(legal, w) == [i \in 1 .. Len(legal) |-> w]

\* _root_search_parallel hands the tasks to the workers: the deadline has not
\* passed at its check, there are 2 processes or more, Pool and pool.map work
WorkersRun(legal, t, cpu, pool_ok) ==
    ~time_exceeded(t) /\ Min(cpu, Len(legal)) > 1 /\ pool_ok

\* the promotion without the test of the deadline
AfterRootSearchNoTest(a, r) ==
    [a EXCEPT !.best_move = IF r.move # None THEN r.move ELSE @,
              !.depth = @ + 1,
              !.depths = Append(@, a.depth),
              !.expired = time_exceeded(Tick(r.t)),
              !.prev_best = a.best_move,
              !.found = r.move,
              !.stale = time_exceeded(r.t)]

\* get_move, in the state a, after a root search has returned [move, score,
\* t]: the move is promoted if the deadline has not passed, and the loop goes
\* on.  prev_best keeps self.best_move as it was before, found the move the
\* search returned, stale whether the deadline had passed when it returned.
AfterRootSearch(a, r) ==
    [a EXCEPT !.best_move = IF ~time_exceeded(r.t) /\ r.move # None
                            THEN r.move ELSE @,
              !.depth = @ + 1,
              !.depths = Append(@, a.depth),
              !.expired = time_exceeded(Tick(r.t)),
              !.prev_best = a.best_move,
              !.found = r.move,
              !.stale = time_exceeded(r.t)]

\* the loop of get_move ends (break, or range(1, DMAX + 1) is used up)
LoopEnd(a, expired) ==
    [a EXCEPT !.pc = "done", !.ret = a.best_move, !.expired = expired]

\* One iteration at a depth of 2 or more with 2 moves or more: the states
\* get_move can be in after the call of _root_search_parallel.  results is
\* what the workers return when their clock starts at w; t0, cpu, pool_ok
\* are the clock at the check that opens the iteration, cpu_count() and
\* whether the pool works.  A worker that saw the deadline pass leaves the
\* coordinator with a clock that has passed it too.
ParallelOutcomes(b, a, w, results) ==
    { IF time_exceeded(c[1]) THEN LoopEnd(a, TRUE)
      ELSE IF WorkersRun(a.legal_moves, Tick(c[1]), c[2], c[3])
      THEN AfterRootSearch(a,
              LET r == root_search_parallel(b, a.legal_moves, a.depth, a.color,
                          a.best_move, Tick(c[1]), c[2], c[3], results)
              IN  IF \E i \in 1 .. Len(results) : time_exceeded(results[i].t)
                  THEN [r EXCEPT !.t = 0] ELSE r)
      ELSE AfterRootSearch(a,
              root_search_parallel(b, a.legal_moves, a.depth, a.color,
                                   a.best_move, Tick(c[1]), c[2], c[3], << >>)) :
      c \in {d \in Deadlines \X CpuCounts \X BOOLEAN :
               IF time_exceeded(d[1]) THEN w = NoDeadline /\ d[2] = 1 /\ d[3]
               ELSE IF WorkersRun(a.legal_moves, Tick(d[1]), d[2], d[3])
               THEN TRUE
               ELSE w = NoDeadline /\ (d[2] > 1 \/ d[3])} }

\* One iteration of the loop of get_move in the state a, on the board b of
\* self.game, or the end of the loop: the states get_move can be in after it.
\* t0 is the clock at the check that opens the iteration, w the clock of the
\* workers (NoDeadline when no worker runs).
DeepenSet(b, a) ==
    IF a.depth > DMAX \/ a.expired \/ a.depth > MaxIter
    THEN {LoopEnd(a, a.depth <= DMAX)}
    ELSE IF Len(a.legal_moves) = 1 \/ a.depth = 1
    THEN { IF time_exceeded(t0) THEN LoopEnd(a, TRUE)
           ELSE AfterRootSearch(a,
                   root_search_sequential(b, a.legal_moves, a.depth, a.color,
                                          Tick(t0))) :
           t0 \in Deadlines }
    ELSE UNION { UNION { ParallelOutcomes(b, a, w, results) :
                         results \in {PoolMap(b, a.legal_moves, 1, a.depth,
                                              a.color,
                                              WorkerClocks(a.legal_moves, w))} } :
                 w \in Deadlines }

DeepenOn(b) == ai' \in DeepenSet(b, ai)

Deepen ==
    /\ ai.pc = "loop"
    /\ DeepenOn(board)
    /\ UNCHANGED << board, history, last, steps, out, gui >>

\* get_move has returned; _ai_worker hands the move on
AiReturn ==
    /\ ai.pc = "done"
    /\ ai' = NoAi
    /\ UNCHANGED << board, history, last, steps, out, gui >>

AiNext == StartAiMove \/ Deepen \/ AiReturn

SpecAI == AiInit /\ [][AiNext]_vars

\* ---------------------------------------------------------- the session
\* OthelloGUI: the Tk main loop runs one callback at a time (button and canvas
\* events, root.after timers); _ai_worker runs in a thread of its own.
\* gui.gid names the OthelloGame object the session holds at the moment
\* (start_new_game makes a new one), gui.ai_gid the object the OthelloAI of the
\* thread was built on, gui.orphan the board of that object once the session
\* has let go of it.  gui.start_timers counts the pending
\* root.after(delay, start_ai_move), gui.apply_queue holds the pending
\* root.after(10, _apply_ai_move) with the move, and the game and the color
\* the search that found it ran on.

\* bounds of a session: once MaxTurns moves have been made the session takes
\* no click and starts no search; clicks on Start New Game and Pause/Resume
MaxTurns == 1
MaxButtons == 2
MaxGames == 1

\* Games in progress.  The human's moves are legal moves; each move of an AI
\* is one that get_move returns from that position (the first legal move or
\* the move of the search at depth 1).
\* Human vs AI, the human Black: Black is to move and has no legal move
LineHumanPass == <<
    <<BLACK, <<2, 4>>>>, <<WHITE, <<2, 3>>>>, <<BLACK, <<2, 2>>>>,
    <<WHITE, <<1, 3>>>>, <<BLACK, <<4, 2>>>>, <<WHITE, <<2, 1>>>>,
    <<BLACK, <<0, 3>>>>, <<WHITE, <<0, 4>>>>, <<BLACK, <<2, 0>>>>,
    <<WHITE, <<0, 2>>>> >>
\* Human vs AI, the human Black: White is to move and has no legal move
LineAiPass == <<
    <<BLACK, <<4, 2>>>>, <<WHITE, <<3, 2>>>>, <<BLACK, <<2, 2>>>>,
    <<WHITE, <<3, 1>>>>, <<BLACK, <<2, 1>>>>, <<WHITE, <<1, 1>>>>,
    <<BLACK, <<2, 0>>>>, <<WHITE, <<3, 0>>>>, <<BLACK, <<4, 0>>>>,
    <<WHITE, <<5, 1>>>>, <<BLACK, <<1, 0>>>>, <<WHITE, <<4, 5>>>>,
    <<BLACK, <<4, 1>>>> >>
\* AI vs AI: Black is to move and has no legal move
LineBothPass == <<
    <<BLACK, <<2, 4>>>>, <<WHITE, <<2, 3>>>>, <<BLACK, <<1, 2>>>>,
    <<WHITE, <<1, 3>>>>, <<BLACK, <<2, 2>>>>, <<WHITE, <<2, 5>>>>,
    <<BLACK, <<0, 2>>>>, <<WHITE, <<0, 3>>>>, <<BLACK, <<0, 4>>>>,
    <<WHITE, <<0, 1>>>>, <<BLACK, <<5, 3>>>>, <<WHITE, <<0, 5>>>>,
    <<BLACK, <<1, 6>>>>, <<WHITE, <<1, 4>>>> >>

\* self.human_color and self.ai_color are None in AI vs AI
NoColor == EMPTY

\* [line, mode, human_color]: the sessions the model starts from
Sessions ==
    { [line |-> Line0, mode |-> "both", human |-> NoColor],
      [line |-> LineHumanPass, mode |-> "vs_ai", human |-> BLACK],
      [line |-> LineAiPass, mode |-> "vs_ai", human |-> BLACK],
      [line |-> LineBothPass, mode |-> "both", human |-> NoColor] }

\* the color to move after a line without passes
ToMove(line) == IF Len(line) % 2 = 0 THEN BLACK ELSE WHITE

\* next_turn on the session fields s: a human's turn waits for a click, an
\* AI's turn schedules start_ai_move
next_turn(s) ==
    IF s.game_over THEN s
    ELSE IF s.current_player = s.human_color THEN s
    ELSE [s EXCEPT !.start_timers = @ + 1]

\* check_game_over: sets self.game_over and returns True when neither color
\* has a legal move
check_game_over(b) ==
    legal_moves(b, BLACK) = << >> /\ legal_moves(b, WHITE) = << >>

\* the thread is alive from Thread.start() to the return of _ai_worker
ThreadAlive == ai.pc # "idle"

\* the OthelloAI object exists: _ai_worker has built it on a game object
SearchInFlight == ai.pc \in {"loop", "done"}

\* the board of the game object the OthelloAI of the thread holds
AiBoard == IF gui.ai_gid = gui.gid THEN board ELSE gui.orphan

SessionInitAt(s) ==
    /\ \E g \in {Replay([board |-> StartBoard, history |-> << >>, ret |-> TRUE],
                         s.line)} :
          board = g.board /\ history = g.history
    /\ last = [op |-> "init", ret |-> TRUE]
    /\ steps = 0
    /\ out = NoCall
    /\ ai = NoAi
    /\ gui = next_turn([mode |-> s.mode, human_color |-> s.human,
                        current_player |-> ToMove(s.line),
                        game_over |-> FALSE, paused |-> FALSE,
                        dmax |-> DEFAULT_DMAX, gid |-> 0, ai_gid |-> 0,
                        orphan |-> None,
                        start_timers |-> 0, apply_queue |-> << >>,
                        games |-> 0, toggles |-> 0])

SessionInit == \E s \in Sessions : SessionInitAt(s)

\* the Start New Game button; the Max Depth entry holds what it held
StartNewGame ==
    /\ gui.games < MaxGames
    /\ gui.games + gui.toggles < MaxButtons
    /\ steps < MaxTurns
    /\ \E mode \in {"vs_ai", "both"}, color \in Colors :
          LET s == [gui EXCEPT
                      !.game_over = FALSE, !.paused = FALSE,
                      !.mode = mode,
                      !.human_color = IF mode = "vs_ai" THEN color ELSE NoColor,
                      !.current_player = IF mode = "vs_ai" THEN BLACK ELSE color,
                      !.gid = @ + 1,
                      !.orphan = IF SearchInFlight /\ gui.ai_gid = gui.gid
                                 THEN board ELSE @,
                      !.games = @ + 1]
          IN  gui' = next_turn(s)
    /\ board' = StartBoard
    /\ history' = << >>
    /\ last' = [op |-> "start_new_game", ret |-> TRUE]
    /\ UNCHANGED << steps, out, ai >>

\* a click on a cell of the board
OnCanvasClick ==
    /\ ~gui.game_over
    /\ gui.current_player = gui.human_color
    /\ steps < MaxTurns
    /\ \E move \in Rows \X Rows :
          /\ move \in ToSet(legal_moves(board, gui.human_color))
          /\ \E g \in {make_move(game, move, gui.human_color)} :
                /\ board' = g.board
                /\ history' = g.history
                /\ last' = [op |-> "on_canvas_click", move |-> move,
                            color |-> gui.human_color, ret |-> g.ret]
                /\ gui' = IF check_game_over(g.board)
                          THEN [gui EXCEPT !.game_over = TRUE]
                          ELSE next_turn(
                                 [gui EXCEPT !.current_player = get_opponent(@)])
    /\ steps' = steps + 1
    /\ UNCHANGED << out, ai >>

\* the Pause/Resume button
TogglePause ==
    /\ gui.games + gui.toggles < MaxButtons
    /\ steps < MaxTurns
    /\ gui' = IF gui.mode # "both" THEN gui
              ELSE IF ~gui.paused
              THEN [gui EXCEPT !.toggles = @ + 1, !.paused = TRUE]
              ELSE next_turn([gui EXCEPT !.toggles = @ + 1, !.paused = FALSE])
    /\ UNCHANGED << board, history, last, steps, out, ai >>

\* a root.after(delay, start_ai_move) comes due
StartAiMoveTimer ==
    /\ gui.start_timers > 0
    /\ \E s \in {[gui EXCEPT !.start_timers = @ - 1]} :
          IF \/ gui.game_over \/ gui.paused
             \/ gui.current_player = gui.human_color
             \/ ThreadAlive
          THEN /\ gui' = s
               /\ UNCHANGED << board, history, last, steps, ai >>
          ELSE IF legal_moves(board, gui.current_player) = << >>
          THEN \E g \in {make_move(game, None, gui.current_player)} :
                  /\ board' = g.board
                  /\ history' = g.history
                  /\ last' = [op |-> "start_ai_move", move |-> None,
                              color |-> gui.current_player, ret |-> g.ret]
                  /\ gui' = IF check_game_over(g.board)
                            THEN [s EXCEPT !.current_player = get_opponent(@),
                                           !.game_over = TRUE]
                            ELSE next_turn(
                                   [s EXCEPT !.current_player = get_opponent(@)])
                  /\ UNCHANGED << steps, ai >>
          ELSE /\ steps < MaxTurns
               /\ gui' = s
               /\ ai' = [pc |-> "spawned"]
               /\ UNCHANGED << board, history, last, steps >>
    /\ UNCHANGED out

\* _ai_worker starts to run: it reads self.current_player and self.game and
\* calls get_move
AiWorkerBegin ==
    /\ ai.pc = "spawned"
    /\ GetMoveStart(board, gui.current_player, gui.dmax)
    /\ gui' = [gui EXCEPT !.ai_gid = gui.gid]
    /\ UNCHANGED << board, history, last, steps, out >>

\* what the session sees of a get_move that has returned
Returned(a, move) ==
    [pc |-> "done", color |-> a.color, legal_moves |-> a.legal_moves,
     ret |-> move]

\* get_move in the thread, from its loop to its return.  It returns one of
\* the legal moves it listed at its start (C8_DeadlineSafety); which one
\* depends on the clock and, when make_move writes to the board while the
\* search reads it, on how the reads and the writes interleave.
AiWorkerSearch ==
    /\ ai.pc = "loop"
    /\ \E move \in ToSet(ai.legal_moves) : ai' = Returned(ai, move)
    /\ UNCHANGED << board, history, last, steps, out, gui >>

\* get_move has returned: _ai_worker schedules _apply_ai_move and ends
AiWorkerEnd ==
    /\ ai.pc = "done"
    /\ gui' = [gui EXCEPT !.apply_queue =
                  Append(@, [move |-> ai.ret, gid |-> gui.ai_gid,
                             color |-> ai.color])]
    /\ ai' = NoAi
    /\ UNCHANGED << board, history, last, steps, out >>

\* the move is handed to make_move and nothing else is done with a refusal
AppliedOrDropped(g, move, color) == make_move(g, move, color)

\* make_move(best_move, current_player), and make_move(None, current_player)
\* when it was refused; ret tells whether best_move itself was applied
AppliedOrPass(g, move, color) ==
    IF make_move(g, move, color).ret THEN make_move(g, move, color)
    ELSE [make_move(g, None, color) EXCEPT !.ret = FALSE]

\* a root.after(10, _apply_ai_move) comes due
ApplyAiMove ==
    /\ gui.apply_queue # << >>
    /\ \E job \in {Head(gui.apply_queue)},
          s \in {[gui EXCEPT !.apply_queue = Tail(@)]} :
          IF gui.game_over \/ gui.paused
          THEN /\ gui' = s
               /\ UNCHANGED << board, history, last, steps >>
          ELSE \E g \in {AppliedOrPass(game, job.move, gui.current_player)} :
                  /\ board' = g.board
                  /\ history' = g.history
                  /\ last' = [op |-> "_apply_ai_move", move |-> job.move,
                              color |-> gui.current_player,
                              ret |-> g.ret]
                  /\ steps' = steps + 1
                  /\ gui' = IF check_game_over(g.board)
                            THEN [s EXCEPT !.game_over = TRUE]
                            ELSE next_turn(
                                   [s EXCEPT !.current_player =
                                                get_opponent(@)])
    /\ UNCHANGED << out, ai >>

SessionNext ==
    \/ StartNewGame \/ OnCanvasClick \/ TogglePause
    \/ StartAiMoveTimer \/ ApplyAiMove
    \/ AiWorkerBegin \/ AiWorkerSearch \/ AiWorkerEnd

SpecSession == SessionInit /\ [][SessionNext]_vars

\* the main loop runs every callback that is due, and the thread runs
SessionFair ==
    /\ WF_vars(StartAiMoveTimer) /\ WF_vars(ApplyAiMove)
    /\ WF_vars(AiWorkerBegin) /\ WF_vars(AiWorkerSearch)
    /\ WF_vars(AiWorkerEnd)

SpecSessionLive == SpecSession /\ SessionFair

\* ----------------------------------------------------------- properties
\* The rule, stated on its own: the cells that a disc of `color` placed on m
\* outflanks, i.e. the cells strictly between m and a disc of `color` on one
\* of the 8 lines through m, all cells between them holding the opponent.
Outflanked(b, m, color) ==
    UNION {{<< m[1] + k * DIRECTIONS[p[1]][1], m[2] + k * DIRECTIONS[p[1]][2] >> :
                k \in 1 .. (p[2] - 1)} :
           p \in {q \in (1 .. Len(DIRECTIONS)) \X (2 .. (BOARD_SIZE - 1)) :
                    LET d == DIRECTIONS[q[1]]
                        n == q[2]
                    IN  /\ is_valid_position(m[1] + n * d[1], m[2] + n * d[2])
                        /\ b[m[1] + n * d[1]][m[2] + n * d[2]] = color
                        /\ \A j \in 1 .. (n - 1) :
                              b[m[1] + j * d[1]][m[2] + j * d[2]] = -color}}

\* the cells other than the target that a call turned from the opponent to color
Flipped(b, new_board, m, color) ==
    {cell \in Rows \X Rows :
        cell # m /\ b[cell[1]][cell[2]] = -color
                 /\ new_board[cell[1]][cell[2]] = color}

\* C1: get_legal_moves(board, color) is exactly the set of empty cells on
\* which apply_move for color flips at least one disc.
C1_LegalitySymmetry ==
    /\ out.op = "get_legal_moves" =>
          ToSet(out.val) =
              {m \in Rows \X Rows :
                  /\ board[m[1]][m[2]] = EMPTY
                  /\ Flipped(board, apply_move(board, m, out.color), m,
                             out.color) # {}}
    /\ (out.op = "apply_move" /\ out.move # None
            /\ board[out.move[1]][out.move[2]] = EMPTY) =>
          (out.move \in ToSet(get_legal_moves(board, out.color))
              <=> Flipped(board, out.val, out.move, out.color) # {})

C1_Witness ==
    /\ out.op = "get_legal_moves"
    /\ out.val # << >>
    /\ \E m \in Rows \X Rows :
          board[m[1]][m[2]] = EMPTY /\ m \notin ToSet(out.val)
    /\ \E m \in ToSet(out.val) :
          Cardinality(Flipped(board, apply_move(board, m, out.color), m,
                              out.color)) >= 2

\* C2: undo_last_move right after an accepted make_move (a placement or a
\* pass) restores the board and the history; undoing the whole history
\* restores the new game.
RECURSIVE UndoAll(_)
UndoAll(g) ==
    IF g.history = << >> THEN [board |-> g.board, history |-> g.history]
    ELSE UndoAll(undo_last_move(g))

C2_ApplyUndoInverse ==
    /\ \A move \in MoveInputs, color \in Colors :
          \A g \in {make_move(game, move, color)} :
              g.ret => undo_last_move(g)
                         = [board |-> board, history |-> history, ret |-> TRUE]
    /\ UndoAll(game) = NewGame

C2_Witness ==
    /\ last = [op |-> "undo_last_move", ret |-> TRUE]
    /\ steps = 2
    /\ history = << >>
    /\ board = StartBoard

\* C3: make_move of a non-pass move either returns True with color on the
\* target and every outflanked opponent disc flipped, or returns False with
\* the board and the history unchanged; False exactly when the target is off
\* the board, not empty, or outflanks nothing.
C3_MakeMoveAllOrNothing ==
    \A move \in MoveInputs \ {None}, color \in Colors :
        \A g \in {make_move(game, move, color)} :
            IF \/ ~is_valid_position(move[1], move[2])
               \/ board[move[1]][move[2]] # EMPTY
            THEN ~g.ret /\ g.board = board /\ g.history = history
            ELSE \A flips \in {Outflanked(board, move, color)} :
                IF flips = {}
                THEN ~g.ret /\ g.board = board /\ g.history = history
                ELSE /\ g.ret
                     /\ \A r \in Rows, c \in Rows :
                           g.board[r][c] =
                               IF <<r, c>> = move \/ <<r, c>> \in flips
                               THEN color ELSE board[r][c]
                     /\ Len(g.history) = Len(history) + 1
                     /\ SubSeq(g.history, 1, Len(history)) = history
                     /\ g.history[Len(g.history)].move = move
                     /\ g.history[Len(g.history)].color = color
                     /\ ToSet(g.history[Len(g.history)].flipped) = flips

C3_Witness ==
    /\ last = [op |-> "make_move", ret |-> FALSE]
    /\ \E move \in Rows \X Rows, color \in Colors :
          /\ board[move[1]][move[2]] = EMPTY
          /\ ~make_move(game, move, color).ret
    /\ \E move \in Rows \X Rows, color \in Colors :
          Cardinality(Outflanked(board, move, color)) >= 2

\* C4 as claimed: apply_move on a target that is not empty or that outflanks
\* nothing returns the board it was given.
C4_ApplyMoveRejectsIllegal ==
    (out.op = "apply_move" /\ out.move # None
        /\ (\/ board[out.move[1]][out.move[2]] # EMPTY
            \/ Outflanked(board, out.move, out.color) = {})) =>
        out.val = board

\* C5 as claimed: from the start position Black playing (2,3) is accepted,
\* flips exactly one White disc and leaves 4 Black discs and 1 White disc.
StandardStart(b) ==
    /\ b[3][3] = BLACK /\ b[3][4] = WHITE /\ b[4][3] = WHITE /\ b[4][4] = BLACK
    /\ CountOf(b, EMPTY) = BOARD_SIZE * BOARD_SIZE - 4

C5_BlackPlays23 ==
    history = << >> =>
        /\ StandardStart(board)
        /\ \A g \in {make_move(game, <<2, 3>>, BLACK)} :
              /\ g.ret
              /\ Cardinality(Flipped(board, g.board, <<2, 3>>, BLACK)) = 1
              /\ count_discs(g.board) = <<4, 1>>

\* C5 as amended: from the start position Black playing (2,4) is accepted,
\* flips exactly the one White disc it outflanks, (3,4), and leaves 4 Black
\* discs and 1 White disc.
C5_BlackPlays24 ==
    /\ history = << >> =>
          /\ StandardStart(board)
          /\ \A g \in {make_move(game, <<2, 4>>, BLACK)} :
                /\ g.ret
                /\ Flipped(board, g.board, <<2, 4>>, BLACK) = {<<3, 4>>}
                /\ count_discs(g.board) = <<4, 1>>
    /\ (Len(history) = 1 /\ history[1].move = <<2, 4>>
            /\ history[1].color = BLACK) =>
          /\ history[1].flipped = << <<3, 4>> >>
          /\ board[2][4] = BLACK /\ board[3][4] = BLACK
          /\ count_discs(board) = <<4, 1>>

C5_Witness ==
    /\ last = [op |-> "make_move", ret |-> TRUE]
    /\ history = << [move |-> <<2, 4>>, color |-> BLACK,
                     flipped |-> << <<3, 4>> >>] >>
    /\ count_discs(board) = <<4, 1>>

\* C6: is_game_over() is True exactly when neither color has a legal move; a
\* position in which exactly one color has no legal move is not game-over.
C6_TerminalDetection ==
    out.op = "is_game_over" =>
        /\ out.val <=> (/\ get_legal_moves(board, BLACK) = << >>
                        /\ get_legal_moves(board, WHITE) = << >>)
        /\ ((get_legal_moves(board, BLACK) = << >>)
                # (get_legal_moves(board, WHITE) = << >>)) => ~out.val

C6_Witness ==
    /\ out.op = "is_game_over"
    /\ ~out.val
    /\ get_legal_moves(board, BLACK) = << >>
    /\ get_legal_moves(board, WHITE) # << >>

\* Full-width minimax: no window, no cut-off, the evaluator at the leaves.
RECURSIVE Minimax(_, _, _, _)
RECURSIVE MinimaxValues(_, _, _, _, _, _)
MinimaxValues(b, moves, i, depth, maximizing, self_color) ==
    IF i > Len(moves) THEN << >>
    ELSE LET color == IF maximizing THEN self_color ELSE -self_color
         IN  << Minimax(apply_move(b, moves[i], color), depth - 1,
                        ~maximizing, self_color) >>
             \o MinimaxValues(b, moves, i + 1, depth, maximizing, self_color)

Minimax(b, depth, maximizing, self_color) ==
    LET color == IF maximizing THEN self_color ELSE -self_color
        moves == get_legal_moves(b, color)
        vals == MinimaxValues(b, moves, 1, depth, maximizing, self_color)
    IN  IF depth = 0 \/ moves = << >> THEN evaluate(b, self_color)
        ELSE IF maximizing
        THEN CHOOSE v \in {vals[i] : i \in 1 .. Len(moves)} :
                \A i \in 1 .. Len(moves) : vals[i] <= v
        ELSE CHOOSE v \in {vals[i] : i \in 1 .. Len(moves)} :
                \A i \in 1 .. Len(moves) : vals[i] >= v

\* the root of the brute-force search: the first move whose value is the
\* largest (a later equal value does not replace an earlier one)
BruteForceRoot(b, moves, depth, self_color) ==
    LET vals == MinimaxValues(b, moves, 1, depth, TRUE, self_color)
        first == CHOOSE i \in 1 .. Len(moves) :
                    /\ \A j \in 1 .. Len(moves) : vals[j] <= vals[i]
                    /\ \A j \in 1 .. (i - 1) : vals[j] < vals[i]
    IN  IF moves = << >> THEN [move |-> None, score |-> -INF]
        ELSE [move |-> moves[first], score |-> vals[first]]

\* C7: with no deadline check reporting expiry, the move and the score of the
\* sequential alpha-beta root search are those of full-width minimax at the
\* same depth.
C7_AlphaBetaEqualsMinimax ==
    (out.op = "_root_search_sequential" /\ ~out.expired) =>
        \E bf \in {BruteForceRoot(board, get_legal_moves(board, out.color),
                                  out.depth, out.color)} :
            out.move = bf.move /\ out.score = bf.score

C7_Witness ==
    /\ out.op = "_root_search_sequential"
    /\ ~out.expired
    /\ out.depth = 3
    /\ board # StartBoard
    /\ out.move # None

\* C9: with at least 2 root moves, a depth of at least 2 and no deadline check
\* reporting expiry, the parallel root search whose workers ran chooses the
\* move the sequential root search chooses.
C9_ParallelEqualsSequential ==
    (out.op = "_root_search_parallel" /\ out.workers /\ ~out.expired) =>
        out.move = root_search_sequential(board,
                        get_legal_moves(board, out.color), out.depth,
                        out.color, NoDeadline).move

C9_Witness ==
    /\ out.op = "_root_search_parallel"
    /\ out.workers
    /\ ~out.expired
    /\ out.depth >= 2
    /\ board # StartBoard
    /\ Len(get_legal_moves(board, out.color)) >= 2

\* C8: get_move returns a legal move of the position it was called on when
\* the color has one, whenever the deadline passes, and None only when the
\* color has no legal move.
C8_DeadlineSafety ==
    ai.pc = "done" =>
        \E legal \in {ToSet(get_legal_moves(board, ai.color))} :
            /\ legal # {} => ai.ret \in legal
            /\ ai.ret = None <=> legal = {}

\* the deadline passed before the first root search started
C8_Witness ==
    /\ ai.pc = "done"
    /\ ai.expired
    /\ ai.depths = << >>
    /\ ai.ret \in ToSet(get_legal_moves(board, ai.color))

\* C10: the root searches of one get_move run at the depths 1, 2, 3, ... and
\* at no depth greater than the Max Depth setting of the session.
C10_DepthBound ==
    ai.pc # "idle" =>
        \A i \in 1 .. Len(ai.depths) :
            ai.depths[i] = i /\ ai.depths[i] <= ai.dmax

\* C11: undo_last_move on an empty history returns False and leaves the board
\* and the empty history as they are, in every state the game reaches.
C11_UndoOnEmptyHistory ==
    /\ history = << >> =>
          undo_last_move(game)
              = [board |-> board, history |-> << >>, ret |-> FALSE]
    /\ (last.op = "undo_last_move" /\ ~last.ret) => history = << >>

\* undo_last_move was called on the new game and returned False
C11_Witness ==
    /\ last = [op |-> "undo_last_move", ret |-> FALSE]
    /\ history = << >>
    /\ board = StartBoard

\* C12: a root search that returns after the deadline has passed (a check of
\* the coordinator, of the recursion or of a worker has reported it) leaves
\* self.best_move as it was, and get_move returns that move: the move of the
\* last depth that returned in time, or the first legal move.
C12_StaleDiscarded ==
    (ai.pc # "idle" /\ ai.legal_moves # << >>) =>
        /\ ai.stale => ai.best_move = ai.prev_best
        /\ ai.depths = << >> => ai.best_move = ai.legal_moves[1]
        /\ ai.pc = "done" => ai.ret = ai.best_move

\* the search at depth 2 came back late with another move than the one of
\* depth 1, and get_move returned the move of depth 1
C12_Witness ==
    /\ ai.pc = "done"
    /\ ai.depths = << 1, 2 >>
    /\ ai.stale
    /\ ai.found # None
    /\ ai.found # ai.ret
    /\ ai.ret # ai.legal_moves[1]

\* C13 as claimed: alphabeta_search on a node with depth > 0 and a legal
\* move, cut off by the deadline, returns a finite value and never the
\* sentinel +infinity or -infinity.
C13_PartialNotSentinel ==
    (/\ out.op = "alphabeta_search"
     /\ out.depth > 0
     /\ out.expired
     /\ get_legal_moves(board, IF out.maximizing THEN out.color
                               ELSE -out.color) # << >>) =>
        (out.val # INF /\ out.val # -INF)

\* it is the turn of color c, which has no legal move while the opponent has
PassDue(c) ==
    /\ gui.mode # "none"
    /\ ~gui.game_over
    /\ gui.current_player = c
    /\ legal_moves(board, c) = << >>
    /\ legal_moves(board, get_opponent(c)) # << >>

\* a pass of color c is the last entry of the history and the turn is the
\* opponent's
PassRecorded(c) ==
    /\ history # << >>
    /\ history[Len(history)].move = None
    /\ history[Len(history)].color = c
    /\ gui.current_player = get_opponent(c)

\* C14 as claimed: whenever it is the turn of a color, human or AI, that has
\* no legal move while the opponent has one, a pass is eventually recorded
\* for it and the turn goes to the opponent (unless the user pauses the game
\* or starts a new one meanwhile).
C14_PassTransfer ==
    \A c \in Colors : \A k \in 0 .. MaxGames :
        (PassDue(c) /\ gui.gid = k /\ ~gui.paused)
            ~> (PassRecorded(c) \/ gui.paused \/ gui.gid # k)

\* C15 as claimed: under every interleaving of the session's events with the
\* AI worker thread, no step changes the board that a running get_move is
\* reading.
C15_NoMutationDuringSearch ==
    [][ai.pc = "loop" => AiBoard' = AiBoard]_vars

\* C16: when _apply_ai_move hands the search's move to make_move and it is
\* refused for the color to move, the step leaves the board as it was and
\* adds exactly one history entry, a pass of that color.
C16_IllegalAiMoveIsPass ==
    [][(steps' = steps + 1 /\ last'.op = "_apply_ai_move" /\ ~last'.ret)
        => /\ last'.move # None
           /\ ~is_valid_move(board, last'.move[1], last'.move[2],
                             gui.current_player)
           /\ board' = board
           /\ history' = Append(history, [move |-> None,
                                          color |-> gui.current_player,
                                          flipped |-> << >>])]_vars

\* a refused AI move has just been replaced by a pass
C16_Witness ==
    /\ last.op = "_apply_ai_move"
    /\ ~last.ret
    /\ last.move # None
    /\ history # << >>
    /\ history[Len(history)] = [move |-> None, color |-> last.color,
                                flipped |-> << >>]

\* C17: every make_move that returns True (a pass included) makes the history
\* one entry longer, every undo_last_move that returns True makes it one
\* entry shorter, and a refused make_move or an undo on the empty history
\* leaves it as it was; so the length is the number of accepted moves minus
\* the number of accepted undos.
C17_HistoryAccounting ==
    [][/\ (steps' = steps + 1 /\ last'.op = "make_move")
            => /\ last'.ret
               /\ Len(history') = Len(history) + 1
               /\ SubSeq(history', 1, Len(history)) = history
       /\ (steps' = steps + 1 /\ last'.op = "undo_last_move")
            => /\ last'.ret
               /\ history # << >>
               /\ history' = SubSeq(history, 1, Len(history) - 1)
       /\ steps' = steps => history' = history
       /\ ~last'.ret => (steps' = steps /\ history' = history)]_vars

\* a game that had some moves: one was undone, then a pass was accepted, and
\* the history is as long as it was
C17_Witness ==
    /\ steps = 2
    /\ last.op = "make_move"
    /\ last.ret
    /\ Len(history) \in {Len(line) : line \in Lines} \ {0}
    /\ history[Len(history)].move = None

\* the cells of the border that are not corners
NonCornerEdgeCells ==
    {m \in Rows \X Rows : m[1] \in {0, 7} \/ m[2] \in {0, 7}}
        \ {corners_idx[i] : i \in 1 .. Len(corners_idx)}

\* C18 as claimed: the edge term is the occupancy differential over the edge
\* cells that are not corners, so a disc on a corner adds nothing to it.
C18_EdgeExcludesCorners ==
    out.op = "evaluate_board"
        => out.edges = CountIn(board, NonCornerEdgeCells, out.color)
                       - CountIn(board, NonCornerEdgeCells, -out.color)

\* C19 as claimed: the score is antisymmetric in the color,
\* evaluate_board(board, color) = -evaluate_board(board, -color).
C19_Antisymmetric ==
    out.op = "evaluate_board"
        => out.val = 0 - evaluate_board(board, -out.color)

\* C20: on every board and for every color, evaluate_board(board, color) and
\* OthelloAI.evaluate(board) of an agent of that color return the same score.
C20_OneEvaluator ==
    /\ out.op = "evaluate" => out.val = evaluate_board(board, out.color)
    /\ out.op = "evaluate_board" => out.val = evaluate(board, out.color)

\* scored by OthelloAI.evaluate on a board where both colors own a corner
C20_Witness ==
    /\ out.op = "evaluate"
    /\ out.val # 0
    /\ \E i, j \in 1 .. Len(corners_idx) :
          /\ board[corners_idx[i][1]][corners_idx[i][2]] = out.color
          /\ board[corners_idx[j][1]][corners_idx[j][2]] = -out.color

\* C21: with no deadline expiry, the (move, score) that _root_search_parallel
\* returns when its workers ran is the same for every order in which the
\* workers complete and every pool size >= 2: the earliest move of
\* get_legal_moves order among those with the maximum worker score.
C21_ParallelDeterministic ==
    (out.op = "_root_search_parallel" /\ out.workers /\ ~out.expired) =>
        \E moves \in {get_legal_moves(board, out.color)} :
            \E i \in 1 .. Len(moves) :
                /\ out.move = moves[i]
                /\ out.score = out.scores[i]
                /\ \A j \in 1 .. Len(moves) : out.scores[j] <= out.scores[i]
                /\ \A j \in 1 .. (i - 1) : out.scores[j] < out.scores[i]

\* the workers completed out of task order, in a pool of 2, and two moves
\* tie for the maximum score
C21_Witness ==
    /\ out.op = "_root_search_parallel"
    /\ out.workers
    /\ ~out.expired
    /\ out.cpu = 2
    /\ out.order # [k \in 1 .. Len(out.order) |-> k]
    /\ \E i, j \in 1 .. Len(out.scores) :
          /\ i # j
          /\ out.scores[i] = out.scores[j]
          /\ \A k \in 1 .. Len(out.scores) : out.scores[k] <= out.scores[i]

\* C22 as claimed: every move that _apply_ai_move hands to make_move comes
\* from a search that ran on the game that is current when the move is
\* applied and for the color that is then to move.
C22_NoStaleAiMove ==
    [][(steps' = steps + 1 /\ last'.op = "_apply_ai_move")
        => /\ Head(gui.apply_queue).gid = gui.gid
           /\ Head(gui.apply_queue).color = gui.current_player]_vars

\* the number of discs on the board
Discs(b) == CountOf(b, BLACK) + CountOf(b, WHITE)

\* the accepted non-pass moves of a history
Placements(h) == {i \in 1 .. Len(h) : h[i].move # None}

\* what an accepted non-pass make_move of color c on cell m does to the board
PlacesAndFlips(b, nb, m, c) ==
    LET changed == {x \in Rows \X Rows : nb[x[1]][x[2]] # b[x[1]][x[2]]}
    IN  /\ b[m[1]][m[2]] = EMPTY
        /\ nb[m[1]][m[2]] = c
        /\ changed \ {m} # {}
        /\ \A x \in changed \ {m} :
              b[x[1]][x[2]] = get_opponent(c) /\ nb[x[1]][x[2]] = c
        /\ Discs(nb) = Discs(b) + 1

\* C23: an accepted non-pass make_move turns exactly one Empty cell into the
\* color, turns at least one and only opponent cells into the color and
\* changes nothing else, so the number of discs grows by 1; only
\* undo_last_move empties a cell; and a game from the start position has 4
\* discs more than accepted non-pass moves, hence at most 60 of them.
C23_DiscMonotonicity ==
    /\ [](/\ Discs(board) = 4 + Cardinality(Placements(history))
          /\ Cardinality(Placements(history)) <= 60)
    /\ [][/\ (steps' = steps + 1 /\ last'.op = "make_move")
               => (history'[Len(history')].move # None
                     => PlacesAndFlips(board, board',
                                       history'[Len(history')].move,
                                       history'[Len(history')].color))
          /\ last'.op # "undo_last_move"
               => \A x \in Rows \X Rows :
                     board[x[1]][x[2]] # EMPTY => board'[x[1]][x[2]] # EMPTY]_vars

\* a move that flipped discs in more than one direction has just been accepted
C23_Witness ==
    /\ last.op = "make_move"
    /\ last.ret
    /\ steps >= 1
    /\ history # << >>
    /\ history[Len(history)].move # None
    /\ Len(history[Len(history)].flipped) >= 3

TypeOK ==

    /\ \A r \in Rows, c \in Rows : board[r][c] \in {EMPTY, BLACK, WHITE}
    /\ steps \in 0 .. MaxSteps

=============================================================================
